---- MODULE Spec2Model ----
(***************************************************************************)
(* ecs_state: a local mirror of one ECS cluster (clusters, container       *)
(* instances, tasks, task definitions) kept in an in-memory SQL store      *)
(* through gorm, refreshed from the ECS API and queried for placement.     *)
(*                                                                         *)
(* Go strings that the program builds, splits or searches (the port        *)
(* columns and the task definition references) are sequences of one        *)
(* character strings, so that formatting, joining, splitting and the       *)
(* instr() search are computed the way the code computes them.  ARNs and   *)
(* status words, which the program only copies and compares, are plain     *)
(* strings.                                                                *)
(***************************************************************************)
EXTENDS Integers, Sequences, FiniteSets, TLC

(***************************************************************************)
(* Bounds of the model.                                                    *)
(***************************************************************************)
\* the clock (time.Now().Unix()) runs from 1 to MaxTime
MaxTime == 2
\* number of identifiers the ECS list calls return per page
PageSize == 2
\* DescribeTaskDefinition calls counted per reference
MaxDescribe == 2

(***************************************************************************)
(* Strings.                                                                *)
(***************************************************************************)
Digits == <<"0", "1", "2", "3", "4", "5", "6", "7", "8", "9">>

RECURSIVE Itoa(_)
Itoa(n) ==
  IF n < 10 THEN <<Digits[n + 1]>>
  ELSE Itoa(n \div 10) \o <<Digits[(n % 10) + 1]>>

RECURSIVE Join(_, _)
Join(strs, sep) ==
  IF Len(strs) = 0 THEN <<>>
  ELSE IF Len(strs) = 1 THEN strs[1]
  ELSE strs[1] \o sep \o Join(Tail(strs), sep)

\* strings.Split(s, sep) for a one character separator: "" gives one empty piece
RECURSIVE SplitFrom(_, _, _)
SplitFrom(s, sep, piece) ==
  IF Len(s) = 0 THEN <<piece>>
  ELSE IF Head(s) = sep THEN <<piece>> \o SplitFrom(Tail(s), sep, <<>>)
  ELSE SplitFrom(Tail(s), sep, Append(piece, Head(s)))

Split(s, sep) == SplitFrom(s, sep, <<>>)

\* strings.HasPrefix
HasPrefix(s, prefix) ==
  /\ Len(s) >= Len(prefix)
  /\ SubSeq(s, 1, Len(prefix)) = prefix

\* SQLite instr(hay, needle): 1-based position of the first occurrence, 0 if none
Instr(hay, needle) ==
  LET hits == {i \in 1..(Len(hay) - Len(needle) + 1) :
                 SubSeq(hay, i, i + Len(needle) - 1) = needle}
  IN IF hits = {} THEN 0 ELSE CHOOSE i \in hits : \A j \in hits : i <= j

RECURSIVE Concat(_)
Concat(strs) == IF Len(strs) = 0 THEN <<>> ELSE Head(strs) \o Concat(Tail(strs))

Range(s) == {s[i] : i \in 1..Len(s)}

\* the sub-sequence of `order` whose elements are in `set`
InOrder(order, set) == SelectSeq(order, LAMBDA x : x \in set)

(***************************************************************************)
(* The tracked cluster and the rows of the four tables.                    *)
(***************************************************************************)
\* State.clusterName, given to Initialize
clusterName == "default"
\* the identifier ECS gives the tracked cluster
TrackedClusterArn == "arn:cluster/default"

ZeroCluster == [ARN |-> "", Name |-> "", Status |-> ""]

ZeroContainerInstance ==
  [ARN |-> "", AgentConnected |-> FALSE, ClusterARN |-> "",
   RegisteredCPU |-> 0, RegisteredMemory |-> 0,
   RegisteredTCPPorts |-> <<>>, RegisteredUDPPorts |-> <<>>,
   RemainingCPU |-> 0, RemainingMemory |-> 0,
   RemainingTCPPorts |-> <<>>, RemainingUDPPorts |-> <<>>,
   Status |-> "", RefreshTime |-> 0]

ZeroTask ==
  [ARN |-> "", DesiredStatus |-> "", LastStatus |-> "", StartedBy |-> "",
   ClusterARN |-> "", ContainerInstanceARN |-> "", TaskDefinitionARN |-> <<>>,
   RefreshTime |-> 0]

ZeroTaskDefinition ==
  [ARN |-> <<>>, ShortString |-> <<>>, Cpu |-> 0, Memory |-> 0,
   TCPPorts |-> <<>>, UDPPorts |-> <<>>]

\* a nil *string of an ECS API structure, and a nil *int64
Nil == "nil"
NilInt == -1

(***************************************************************************)
(* What ECS can report.  A container instance or task is absent upstream   *)
(* or has one of a few shapes; the task definitions are registered once    *)
(* and never change.                                                       *)
(***************************************************************************)
NodeArns == {"ci1", "ci2"}
\* the order ECS lists them in; ci3 registers once and never changes
NodeOrder == <<"ci1", "ci2", "ci3">>
TaskArns == {"t1", "t2"}
TaskOrder == <<"t1", "t2">>

\* the []*ecs.Resource list of a container instance
Resources(cpu, mem, tcp, udp) ==
  << [Name |-> "CPU", Type |-> "INTEGER", IntegerValue |-> cpu, StringSetValue |-> <<>>],
     [Name |-> "MEMORY", Type |-> "INTEGER", IntegerValue |-> mem, StringSetValue |-> <<>>],
     [Name |-> "PORTS", Type |-> "STRINGSET", IntegerValue |-> 0,
      StringSetValue |-> [i \in 1..Len(tcp) |-> Itoa(tcp[i])]],
     [Name |-> "PORTS_UDP", Type |-> "STRINGSET", IntegerValue |-> 0,
      StringSetValue |-> [i \in 1..Len(udp) |-> Itoa(udp[i])]] >>

EcsNode(connected, cpu, mem, tcp, udp, status) ==
  [AgentConnected |-> connected,
   RegisteredResources |-> Resources(1024, 2048, <<22>>, <<>>),
   RemainingResources |-> Resources(cpu, mem, tcp, udp),
   Status |-> status]

NodeShapes(arn) ==
  IF arn = "ci1"
  THEN { EcsNode(TRUE, 1024, 2048, <<80, 443>>, <<>>, "ACTIVE"),
         EcsNode(TRUE, 128, 0, <<443>>, <<>>, "ACTIVE"),
         EcsNode(FALSE, 1024, 2048, <<>>, <<>>, "INACTIVE") }
  ELSE { EcsNode(TRUE, 1024, 2048, <<22>>, <<53>>, "ACTIVE") }

\* the container instance a service is scaled on: connected, CPU 900 and
\* memory 3000 remaining, with the TCP ports ECS reports for it
ServiceNode(tcp) == EcsNode(TRUE, 900, 3000, tcp, <<>>, "ACTIVE")

ArnPrefix == <<"a", "r", "n", ":", "a", "w", "s", ":", "e", "c", "s", ":">>

\* an *ecs.TaskDefinition as DescribeTaskDefinition returns it
PortMapping(hostPort, protocol) == [HostPort |-> hostPort, Protocol |-> protocol]

ContainerDefinition(cpu, mem, mappings) ==
  [Cpu |-> cpu, Memory |-> mem, PortMappings |-> mappings]

EcsTaskDefinition(family, revision, containers) ==
  [TaskDefinitionArn |->
     ArnPrefix \o <<"t", "d", "/">> \o family \o <<":">> \o Itoa(revision),
   Family |-> family, Revision |-> revision,
   ContainerDefinitions |-> containers]

Web == <<"w", "e", "b">>
Ssh == <<"s", "s", "h">>

Templates ==
  { EcsTaskDefinition(Web, 1,
      << ContainerDefinition(256, 512, << PortMapping(80, "tcp") >>) >>),
    EcsTaskDefinition(Web, 2,
      << ContainerDefinition(128, 256, << PortMapping(443, Nil), PortMapping(0, "tcp") >>),
         ContainerDefinition(128, 256, << PortMapping(53, "udp"), PortMapping(NilInt, "tcp") >>) >>),
    EcsTaskDefinition(Web, 3,
      << ContainerDefinition(100, 100, << PortMapping(80, "tcp") >>) >>),
    EcsTaskDefinition(Ssh, 1,
      << ContainerDefinition(64, 64, << PortMapping(22, "tcp") >>) >>) }

ShortFormOf(t) == t.Family \o <<":">> \o Itoa(t.Revision)

\* a reference ECS does not know
UnknownRef == <<"g", "o", "n", "e", ":", "1">>

Refs == {ShortFormOf(t) : t \in Templates} \cup {t.TaskDefinitionArn : t \in Templates}
          \cup {UnknownRef}

EcsTask(node, template, desired, lastStatus, startedBy) ==
  [ClusterArn |-> TrackedClusterArn, ContainerInstanceArn |-> node,
   TaskDefinitionArn |-> template, DesiredStatus |-> desired,
   LastStatus |-> lastStatus, StartedBy |-> startedBy]

WebArn == ArnPrefix \o <<"t", "d", "/">> \o Web \o <<":", "1">>

TaskShapes(arn) ==
  IF arn = "t1"
  THEN { EcsTask("ci1", WebArn, "RUNNING", "RUNNING", Nil),
         EcsTask("ci1", WebArn, "STOPPED", "RUNNING", "svc") }
  ELSE { EcsTask("ci2", WebArn, "RUNNING", "PENDING", "svc"),
         EcsTask(Nil, WebArn, "RUNNING", "PENDING", Nil) }

(***************************************************************************)
(* The store: gorm over SQLite.                                            *)
(***************************************************************************)
\* gorm's Updates(struct): the columns whose assigned value is not the zero
\* value of its type are written, the others keep what the row holds
Updates(row, assignment, zero) ==
  [f \in DOMAIN row |->
     IF f \in DOMAIN assignment /\ assignment[f] # zero[f] THEN assignment[f] ELSE row[f]]

\* db.Where(finder{ARN}).Assign(assignment).FirstOrCreate(&model): the row with
\* that ARN is updated with the assignment, or a row is created from both
FirstOrCreate(table, arn, assignment, zero) ==
  IF arn \in DOMAIN table
  THEN [table EXCEPT ![arn] = Updates(@, assignment, zero)]
  ELSE [a \in DOMAIN table \cup {arn} |->
          IF a = arn THEN Updates([zero EXCEPT !.ARN = arn], assignment, zero)
          ELSE table[a]]

\* assignment.RefreshTime = refreshTime
WithRefreshTime(assignment, refreshTime) ==
  [f \in DOMAIN assignment \cup {"RefreshTime"} |->
     IF f = "RefreshTime" THEN refreshTime ELSE assignment[f]]

\* db.Where("refresh_time < ?", refreshTime).Find(&old)
OlderThan(table, refreshTime) ==
  {a \in DOMAIN table : table[a].RefreshTime < refreshTime}

\* db.Delete(&row) for every row found
DeleteAll(table, arns) == [a \in DOMAIN table \ arns |-> table[a]]

(***************************************************************************)
(* State.                                                                  *)
(***************************************************************************)
VARIABLES
  now,                 \* time.Now().Unix()
  ecsCluster,          \* ECS: status of the tracked cluster, or "MISSING"
  ecsCI,               \* ECS: container instance ARN -> ecs.ContainerInstance
  ecsTasks,            \* ECS: task ARN -> ecs.Task
  clusters,            \* table clusters: ARN -> row
  containerInstances,  \* table container_instances: ARN -> row
  tasks,               \* table tasks: ARN -> row
  taskDefinitions,     \* table task_definitions: ARN -> row
  crashed,             \* the process died of a nil pointer dereference
  describeCalls,       \* history: reference -> DescribeTaskDefinition calls made
  firstResult,         \* history: reference -> what FindTaskDefinition first returned
  hist,                \* history: per kind, what the latest refresh reported
  upserts,             \* overlapping refreshes: the rows of container_instances as
                       \* SQLite holds them, and where each FirstOrCreate stands
  last                 \* history: the latest operation, its inputs and its outcome

vars == <<now, ecsCluster, ecsCI, ecsTasks, clusters, containerInstances, tasks,
          taskDefinitions, crashed, describeCalls, firstResult, hist, upserts, last>>

ecsVars == <<ecsCluster, ecsCI, ecsTasks>>
tdVars == <<taskDefinitions, describeCalls, firstResult>>

\* the refresh calls that may overlap
Callers == {"refresh1", "refresh2"}

EmptyTable == [a \in {} |-> ZeroCluster]

Init ==
  /\ now = 1
  /\ ecsCluster = "ACTIVE"
  /\ ecsCI = EmptyTable
  /\ ecsTasks = EmptyTable
  /\ clusters = EmptyTable
  /\ containerInstances = EmptyTable
  /\ tasks = EmptyTable
  /\ taskDefinitions = EmptyTable
  /\ crashed = FALSE
  /\ describeCalls = [r \in Refs |-> 0]
  /\ firstResult = EmptyTable
  /\ hist = [reported |-> [ci |-> {}, task |-> {}],
             fresh |-> [cluster |-> FALSE, ci |-> FALSE, task |-> FALSE]]
  /\ last = [op |-> "init"]
  /\ upserts = [rows |-> <<>>, calls |-> [c \in Callers |-> [pc |-> "idle"]]]

\* the port numbers the encoding is tried on, in the order ECS lists them
PortUniverse == {8, 80, 180, 808, 8080}
PortOrder == <<8, 80, 180, 808, 8080>>

\* the state a port set and a port are drawn in, for the encoding of ports
InitPorts ==
  /\ now = 1
  /\ ecsCluster = "ACTIVE"
  /\ ecsCI = EmptyTable
  /\ ecsTasks = EmptyTable
  /\ clusters = EmptyTable
  /\ containerInstances = EmptyTable
  /\ tasks = EmptyTable
  /\ taskDefinitions = EmptyTable
  /\ crashed = FALSE
  /\ describeCalls = [r \in Refs |-> 0]
  /\ firstResult = EmptyTable
  /\ hist = [reported |-> [ci |-> {}, task |-> {}],
             fresh |-> [cluster |-> FALSE, ci |-> FALSE, task |-> FALSE]]
  /\ \E S \in SUBSET PortUniverse : \E port \in PortUniverse :
       last = [op |-> "ports", ports |-> InOrder(PortOrder, S), port |-> port]
  /\ upserts = [rows |-> <<>>, calls |-> [c \in Callers |-> [pc |-> "idle"]]]

\* every row of every table, as <<table, key>>
Rows(cl, ci, ts, td) ==
  ({"clusters"} \X DOMAIN cl) \cup ({"container_instances"} \X DOMAIN ci)
    \cup ({"tasks"} \X DOMAIN ts) \cup ({"task_definitions"} \X DOMAIN td)

\* a table without its refresh epochs
Content(table) == [a \in DOMAIN table |-> [table[a] EXCEPT !.RefreshTime = 0]]

(***************************************************************************)
(* The environment: the clock advances, ECS changes.                       *)
(***************************************************************************)
Tick ==
  /\ ~crashed
  /\ now < MaxTime
  /\ now' = now + 1
  /\ last' = [op |-> "tick"]
  /\ UNCHANGED <<upserts, ecsVars, clusters, containerInstances, tasks, tdVars, crashed>>

Put(table, key, row) ==
  [a \in DOMAIN table \cup {key} |-> IF a = key THEN row ELSE table[a]]

EcsClusterChanges ==
  /\ ~crashed
  /\ \E status \in {"ACTIVE", "MISSING"} :
       /\ status # ecsCluster
       /\ ecsCluster' = status
  /\ last' = [op |-> "ecs"]
  /\ UNCHANGED <<upserts, now, ecsCI, ecsTasks, clusters, containerInstances, tasks, tdVars, crashed>>

EcsContainerInstanceChanges ==
  /\ ~crashed
  /\ \E arn \in NodeArns :
       \/ /\ arn \in DOMAIN ecsCI
          /\ ecsCI' = DeleteAll(ecsCI, {arn})
       \/ \E shape \in NodeShapes(arn) :
            /\ IF arn \in DOMAIN ecsCI THEN ecsCI[arn] # shape ELSE TRUE
            /\ ecsCI' = Put(ecsCI, arn, shape)
  /\ last' = [op |-> "ecs"]
  /\ UNCHANGED <<upserts, now, ecsCluster, ecsTasks, clusters, containerInstances, tasks, tdVars,
                 crashed>>

EcsRegistersThird ==
  /\ ~crashed
  /\ "ci3" \notin DOMAIN ecsCI
  /\ \E shape \in NodeShapes("ci3") : ecsCI' = Put(ecsCI, "ci3", shape)
  /\ last' = [op |-> "ecs"]
  /\ UNCHANGED <<upserts, now, ecsCluster, ecsTasks, clusters, containerInstances, tasks, tdVars,
                 crashed>>

\* ECS registers the service's container instance, alone and with no TCP
\* port reported, and later reports TCP port 80 for it
EcsScalesService ==
  /\ ~crashed
  /\ \/ /\ DOMAIN ecsCI = {}
        /\ ecsCI' = Put(ecsCI, "ci1", ServiceNode(<<>>))
     \/ /\ DOMAIN ecsCI = {"ci1"} /\ ecsCI["ci1"] = ServiceNode(<<>>)
        /\ ecsCI' = Put(ecsCI, "ci1", ServiceNode(<<80>>))
  /\ last' = [op |-> "ecs"]
  /\ UNCHANGED <<upserts, now, ecsCluster, ecsTasks, clusters, containerInstances, tasks, tdVars,
                 crashed>>

EcsTaskChanges ==
  /\ ~crashed
  /\ \E arn \in TaskArns :
       \/ /\ arn \in DOMAIN ecsTasks
          /\ ecsTasks' = DeleteAll(ecsTasks, {arn})
       \/ \E shape \in TaskShapes(arn) :
            /\ IF arn \in DOMAIN ecsTasks THEN ecsTasks[arn] # shape ELSE TRUE
            /\ ecsTasks' = Put(ecsTasks, arn, shape)
  /\ last' = [op |-> "ecs"]
  /\ UNCHANGED <<upserts, now, ecsCluster, ecsCI, clusters, containerInstances, tasks, tdVars,
                 crashed>>

(***************************************************************************)
(* The ECS client.                                                         *)
(***************************************************************************)
Min(a, b) == IF a < b THEN a ELSE b

RECURSIVE Chunks(_)
Chunks(arns) ==
  IF Len(arns) = 0 THEN <<>>
  ELSE <<SubSeq(arns, 1, Min(PageSize, Len(arns)))>>
         \o Chunks(SubSeq(arns, Min(PageSize, Len(arns)) + 1, Len(arns)))

\* the pages a List...Pages call hands to its callback: the identifiers in
\* pages of PageSize, one empty page when there are none
Pages(arns) == IF Len(arns) = 0 THEN << <<>> >> ELSE Chunks(arns)

\* how a paginated call can go: all pages are delivered, or the request for
\* a page fails after `delivered` pages went to the callback
ListOutcomes(pages) ==
  {[err |-> FALSE, delivered |-> Len(pages)]}
    \cup {[err |-> TRUE, delivered |-> n] : n \in 0..(Len(pages) - 1)}

DescribedOnCleanPages(pages, delivered, describeErr, failures) ==
  Concat([i \in 1..delivered |->
            IF i \in describeErr \/ Range(pages[i]) \cap failures # {} THEN <<>>
            ELSE pages[i]])

\* the identifiers a Describe call answers with records: those on delivered
\* pages whose Describe call did not fail, less the ones in resp.Failures
Described(pages, delivered, describeErr, failures) ==
  SelectSeq(Concat([i \in 1..delivered |-> IF i \in describeErr THEN <<>> ELSE pages[i]]),
            LAMBDA a : a \notin failures)

OnPages(pages, indexes) == UNION {Range(pages[i]) : i \in indexes}

(***************************************************************************)
(* RefreshClusterState                                                     *)
(***************************************************************************)
\* db.Where("name = ?", name).First(&cluster): the zero Cluster when none
FindClusterByName(name) ==
  LET found == {a \in DOMAIN clusters : clusters[a].Name = name}
  IN IF found = {} THEN ZeroCluster ELSE clusters[CHOOSE a \in found : TRUE]

RefreshClusterState ==
  /\ ~crashed
  /\ \E err \in BOOLEAN :
       LET stored ==
             IF err \/ ecsCluster = "MISSING" THEN clusters
             ELSE FirstOrCreate(clusters, TrackedClusterArn,
                                [Name |-> clusterName, Status |-> ecsCluster], ZeroCluster)
       IN /\ clusters' = stored
          /\ last' = [op |-> "RefreshClusterState", err |-> err]
  /\ UNCHANGED <<upserts, now, ecsVars, containerInstances, tasks, tdVars, crashed>>

(***************************************************************************)
(* RefreshContainerInstanceState                                           *)
(***************************************************************************)
RECURSIVE getResourceAsInt(_, _, _)
getResourceAsInt(resources, name, defaultValue) ==
  IF Len(resources) = 0 THEN defaultValue
  ELSE IF Head(resources).Name = name /\ Head(resources).Type = "INTEGER"
       THEN Head(resources).IntegerValue
       ELSE getResourceAsInt(Tail(resources), name, defaultValue)

portStringBuilderBare(ports) == Join(ports, <<",">>)

portStringBuilder(ports) ==
  Concat([i \in 1..Len(ports) |-> <<"=">> \o ports[i] \o <<"=">>])

RECURSIVE getResourceAsPortSet(_, _, _)
getResourceAsPortSet(resources, name, defaultValue) ==
  IF Len(resources) = 0 THEN defaultValue
  ELSE IF Head(resources).Name = name /\ Head(resources).Type = "STRINGSET"
       THEN portStringBuilder(Head(resources).StringSetValue)
       ELSE getResourceAsPortSet(Tail(resources), name, defaultValue)

\* the agent version fields and the EC2 instance id are copied like Status
\* and read by nothing; they are left out
containerInstanceAssignment(cluster, containerInstance) ==
  [ClusterARN |-> cluster.ARN,
   AgentConnected |-> containerInstance.AgentConnected,
   RegisteredCPU |-> getResourceAsInt(containerInstance.RegisteredResources, "CPU", 0),
   RegisteredMemory |-> getResourceAsInt(containerInstance.RegisteredResources, "MEMORY", 0),
   RegisteredTCPPorts |->
     getResourceAsPortSet(containerInstance.RegisteredResources, "PORTS", <<>>),
   RegisteredUDPPorts |->
     getResourceAsPortSet(containerInstance.RegisteredResources, "PORTS_UDP", <<>>),
   RemainingCPU |-> getResourceAsInt(containerInstance.RemainingResources, "CPU", 0),
   RemainingMemory |-> getResourceAsInt(containerInstance.RemainingResources, "MEMORY", 0),
   RemainingTCPPorts |->
     getResourceAsPortSet(containerInstance.RemainingResources, "PORTS", <<>>),
   RemainingUDPPorts |->
     getResourceAsPortSet(containerInstance.RemainingResources, "PORTS_UDP", <<>>),
   Status |-> containerInstance.Status]

\* the loop over resp.ContainerInstances, for the records of all pages
RECURSIVE UpsertContainerInstances(_, _, _, _)
UpsertContainerInstances(table, arns, cluster, refreshTime) ==
  IF Len(arns) = 0 THEN table
  ELSE UpsertContainerInstances(
         FirstOrCreate(table, Head(arns),
                       WithRefreshTime(
                         containerInstanceAssignment(cluster, ecsCI[Head(arns)]),
                         refreshTime),
                       ZeroContainerInstance),
         Tail(arns), cluster, refreshTime)

StaleDeletionRunsAlways(list) == TRUE

\* the stale rows are deleted when the paginated call returned no error
StaleDeletionRuns(list) == ~list.err

RefreshContainerInstanceState ==
  /\ ~crashed
  /\ LET cluster == FindClusterByName(clusterName)
         refreshTime == now
         pages == Pages(InOrder(NodeOrder, DOMAIN ecsCI))
     IN \E list \in ListOutcomes(pages) :
        \E describeErr \in SUBSET (1..list.delivered) :
        \E failures \in SUBSET OnPages(pages, (1..list.delivered) \ describeErr) :
          LET reported == Described(pages, list.delivered, describeErr, failures)
              upserted == UpsertContainerInstances(containerInstances, reported, cluster,
                                                   refreshTime)
              stored == IF StaleDeletionRuns(list)
                        THEN DeleteAll(upserted, OlderThan(upserted, refreshTime))
                        ELSE upserted
          IN /\ containerInstances' = stored
             /\ last' = [op |-> "RefreshContainerInstanceState",
                         listErr |-> list.err,
                         describeErr |-> OnPages(pages, describeErr),
                         failures |-> failures,
                         reported |-> Range(reported),
                         panicked |-> FALSE]
  /\ UNCHANGED <<upserts, now, ecsVars, clusters, tasks, tdVars, crashed>>

(***************************************************************************)
(* RefreshTaskState                                                        *)
(***************************************************************************)
\* *task.ContainerInstanceArn is dereferenced unguarded
taskAssignmentPanics(task) == task.ContainerInstanceArn = Nil

taskAssignment(task) ==
  [ClusterARN |-> task.ClusterArn,
   ContainerInstanceARN |-> task.ContainerInstanceArn,
   TaskDefinitionARN |-> task.TaskDefinitionArn,
   DesiredStatus |-> task.DesiredStatus,
   LastStatus |-> task.DesiredStatus,
   StartedBy |-> IF task.StartedBy # Nil THEN task.StartedBy ELSE ""]

\* the loop over resp.Tasks, for the records of all pages
RECURSIVE UpsertTasks(_, _, _)
UpsertTasks(table, arns, refreshTime) ==
  IF Len(arns) = 0 THEN table
  ELSE UpsertTasks(
         FirstOrCreate(table, Head(arns),
                       WithRefreshTime(taskAssignment(ecsTasks[Head(arns)]), refreshTime),
                       ZeroTask),
         Tail(arns), refreshTime)

\* the records upserted before the loop reaches one it panics on
RECURSIVE BeforePanic(_)
BeforePanic(arns) ==
  IF Len(arns) = 0 \/ taskAssignmentPanics(ecsTasks[Head(arns)]) THEN <<>>
  ELSE <<Head(arns)>> \o BeforePanic(Tail(arns))

RefreshTaskState ==
  /\ ~crashed
  /\ LET refreshTime == now
         pages == Pages(InOrder(TaskOrder, DOMAIN ecsTasks))
     IN \E list \in ListOutcomes(pages) :
        \E describeErr \in SUBSET (1..list.delivered) :
        \E failures \in SUBSET OnPages(pages, (1..list.delivered) \ describeErr) :
          LET described == Described(pages, list.delivered, describeErr, failures)
              reported == BeforePanic(described)
              panicked == reported # described
              upserted == UpsertTasks(tasks, reported, refreshTime)
              stored == IF ~panicked /\ StaleDeletionRuns(list)
                        THEN DeleteAll(upserted, OlderThan(upserted, refreshTime))
                        ELSE upserted
          IN /\ tasks' = stored
             /\ crashed' = panicked
             /\ last' = [op |-> "RefreshTaskState",
                         listErr |-> list.err,
                         describeErr |-> OnPages(pages, describeErr),
                         failures |-> failures,
                         reported |-> Range(reported),
                         panicked |-> panicked]
  /\ UNCHANGED <<upserts, now, ecsVars, clusters, containerInstances, tdVars>>

(***************************************************************************)
(* FindTaskDefinition                                                      *)
(***************************************************************************)
\* what DescribeTaskDefinition answers for a reference ECS knows
EcsDescribeTaskDefinition(td) ==
  {t \in Templates : ShortFormOf(t) = td \/ t.TaskDefinitionArn = td}

RECURSIVE SumOf(_, _)
SumOf(containerDefinitions, field) ==
  IF Len(containerDefinitions) = 0 THEN 0
  ELSE Head(containerDefinitions)[field] + SumOf(Tail(containerDefinitions), field)

\* the port mappings in the order the two loops visit them
AllPortMappings(containerDefinitions) ==
  Concat([i \in 1..Len(containerDefinitions) |-> containerDefinitions[i].PortMappings])

HasHostPort(portMapping) == portMapping.HostPort # NilInt /\ portMapping.HostPort # 0

IsUdpNever(portMapping) == FALSE

IsUdp(portMapping) == portMapping.Protocol # Nil /\ portMapping.Protocol = "udp"

HostPorts(portMappings) == [i \in 1..Len(portMappings) |-> Itoa(portMappings[i].HostPort)]

\* the TaskDefinition built from the response
BuildTaskDefinition(t) ==
  LET mappings == AllPortMappings(t.ContainerDefinitions)
      udpPorts == HostPorts(SelectSeq(mappings, LAMBDA pm : HasHostPort(pm) /\ IsUdp(pm)))
      tcpPorts == HostPorts(SelectSeq(mappings, LAMBDA pm : HasHostPort(pm) /\ ~IsUdp(pm)))
  IN [ARN |-> t.TaskDefinitionArn,
      ShortString |-> t.Family \o <<":">> \o Itoa(t.Revision),
      Cpu |-> SumOf(t.ContainerDefinitions, "Cpu"),
      Memory |-> SumOf(t.ContainerDefinitions, "Memory"),
      TCPPorts |-> Join(tcpPorts, <<",">>),
      UDPPorts |-> Join(udpPorts, <<",">>)]

CreateDropped(table, row) == table

CreateAlone(table, row) == [a \in {row.ARN} |-> row]

\* db.Create(&taskDefinition): the insert fails, and the error is dropped,
\* when the primary key or the unique short string is taken
Create(table, row) ==
  IF \E a \in DOMAIN table : a = row.ARN \/ table[a].ShortString = row.ShortString
  THEN table
  ELSE Put(table, row.ARN, row)

LookupColumnShortOnly(td) == "ShortString"

\* the column the reference is looked up in
LookupColumn(td) == IF HasPrefix(td, ArnPrefix) THEN "ARN" ELSE "ShortString"

\* db.Where(queryString, td).First(&taskDefinition)
Lookup(td) == {a \in DOMAIN taskDefinitions : taskDefinitions[a][LookupColumn(td)] = td}

\* the template a reference names in ECS
TemplateOf(td) == CHOOSE t \in Templates : ShortFormOf(t) = td \/ t.TaskDefinitionArn = td

\* the references ECS knows
KnownRefs == {td \in Refs : EcsDescribeTaskDefinition(td) # {}}

\* how a call can go: the row is found; or ECS is asked and the call fails,
\* resp.TaskDefinition is nil and its dereference panics; or ECS answers
FindTaskDefinitionOutcomes(td) ==
  IF Lookup(td) # {}
  THEN {[described |-> FALSE, panicked |-> FALSE, stored |-> taskDefinitions,
         result |-> taskDefinitions[CHOOSE a \in Lookup(td) : TRUE]]}
  ELSE {[described |-> TRUE, panicked |-> TRUE, stored |-> taskDefinitions,
         result |-> ZeroTaskDefinition]}
       \cup {[described |-> TRUE, panicked |-> FALSE,
              stored |-> Create(taskDefinitions, BuildTaskDefinition(t)),
              result |-> BuildTaskDefinition(t)] : t \in EcsDescribeTaskDefinition(td)}

\* the effect of a call on the task definition table and its history
Resolves(td, o) ==
  /\ o.described => describeCalls[td] < MaxDescribe
  /\ taskDefinitions' = o.stored
  /\ crashed' = o.panicked
  /\ describeCalls' = IF o.described THEN [describeCalls EXCEPT ![td] = @ + 1]
                      ELSE describeCalls
  /\ firstResult' = IF o.panicked \/ td \in DOMAIN firstResult THEN firstResult
                    ELSE Put(firstResult, td, o.result)

FindTaskDefinition ==
  /\ ~crashed
  /\ \E td \in Refs :
     \E o \in FindTaskDefinitionOutcomes(td) :
       /\ Resolves(td, o)
       /\ last' = [op |-> "FindTaskDefinition", td |-> td, described |-> o.described,
                   panicked |-> o.panicked, result |-> o.result,
                   again |-> td \in DOMAIN firstResult]
  /\ UNCHANGED <<upserts, now, ecsVars, clusters, containerInstances, tasks>>

(***************************************************************************)
(* FindLocationsForTaskDefinition                                          *)
(***************************************************************************)
\* the conditions instr(column, "=port=") = 0, one per non-empty port
buildPortQueryBare(column, ports) ==
  LET wanted == SelectSeq(Split(ports, ","), LAMBDA port : Len(port) # 0)
  IN [i \in 1..Len(wanted) |-> [column |-> column, needle |-> wanted[i]]]

buildPortQuery(column, ports) ==
  LET wanted == SelectSeq(Split(ports, ","), LAMBDA port : Len(port) # 0)
  IN [i \in 1..Len(wanted) |->
        [column |-> column, needle |-> <<"=">> \o wanted[i] \o <<"=">>]]

PortConditionInverted(row, condition) == Instr(row[condition.column], condition.needle) # 0

PortConditionHolds(row, condition) == Instr(row[condition.column], condition.needle) = 0

QualifiesWithoutPorts(row, taskDefinition) ==
  /\ row.RemainingCPU >= taskDefinition.Cpu
  /\ row.RemainingMemory >= taskDefinition.Memory
  /\ row.AgentConnected = TRUE

QualifiesAnyAgent(row, taskDefinition) ==
  LET query == buildPortQuery("RemainingTCPPorts", taskDefinition.TCPPorts)
                 \o buildPortQuery("RemainingUDPPorts", taskDefinition.UDPPorts)
  IN /\ row.RemainingCPU >= taskDefinition.Cpu
     /\ row.RemainingMemory >= taskDefinition.Memory
     /\ \A i \in 1..Len(query) : PortConditionHolds(row, query[i])

\* the WHERE clause of the query, evaluated on one row
Qualifies(row, taskDefinition) ==
  LET query == buildPortQuery("RemainingTCPPorts", taskDefinition.TCPPorts)
                 \o buildPortQuery("RemainingUDPPorts", taskDefinition.UDPPorts)
  IN /\ row.RemainingCPU >= taskDefinition.Cpu
     /\ row.RemainingMemory >= taskDefinition.Memory
     /\ row.AgentConnected = TRUE
     /\ \A i \in 1..Len(query) : PortConditionHolds(row, query[i])

\* the references placement is asked for
LocationRefs == {ShortFormOf(t) : t \in Templates} \cup {UnknownRef}

\* a set of ports goes through portStringBuilder into the column, a port
\* through buildPortQuery into a condition, and the condition is evaluated
\* on the column as SQLite evaluates instr
EncodesAndTests ==
  /\ last.op = "ports"
  /\ LET column == portStringBuilder([i \in 1..Len(last.ports) |-> Itoa(last.ports[i])])
         query == buildPortQuery("RemainingTCPPorts", Itoa(last.port))
     IN last' = [op |-> "instr", ports |-> last.ports, port |-> last.port,
                 column |-> column,
                 excluded |-> \E i \in 1..Len(query) :
                                ~PortConditionHolds([RemainingTCPPorts |-> column], query[i])]
  /\ UNCHANGED <<upserts, now, ecsVars, clusters, containerInstances, tasks, tdVars, crashed,
                 hist>>

\* the row with the CPU and the memory of the task definition taken off
Reserved(row, taskDefinition) ==
  [row EXCEPT !.RemainingCPU = @ - taskDefinition.Cpu,
              !.RemainingMemory = @ - taskDefinition.Memory]

FindLocationsReserving ==
  /\ ~crashed
  /\ \E td \in LocationRefs :
     \E o \in FindTaskDefinitionOutcomes(td) :
       /\ Resolves(td, o)
       /\ last' = [op |-> "FindLocationsForTaskDefinition", td |-> td,
                   described |-> o.described, panicked |-> o.panicked,
                   taskDefinition |-> o.result,
                   locations |->
                     IF o.panicked THEN {}
                     ELSE {a \in DOMAIN containerInstances :
                             Qualifies(containerInstances[a], o.result)}]
       /\ containerInstances' =
            [a \in DOMAIN containerInstances |->
               IF a \in last'.locations THEN Reserved(containerInstances[a], o.result)
               ELSE containerInstances[a]]
  /\ UNCHANGED <<upserts, now, ecsVars, clusters, tasks>>

FindLocationsForTaskDefinition ==
  /\ ~crashed
  /\ \E td \in LocationRefs :
     \E o \in FindTaskDefinitionOutcomes(td) :
       /\ Resolves(td, o)
       /\ last' = [op |-> "FindLocationsForTaskDefinition", td |-> td,
                   described |-> o.described, panicked |-> o.panicked,
                   taskDefinition |-> o.result,
                   locations |->
                     IF o.panicked THEN {}
                     ELSE {a \in DOMAIN containerInstances :
                             Qualifies(containerInstances[a], o.result)}]
  /\ UNCHANGED <<upserts, now, ecsVars, clusters, containerInstances, tasks>>

(***************************************************************************)
(* Overlapping refreshes.  Where(finder).Assign(...).FirstOrCreate is two  *)
(* statements, a SELECT and then an INSERT or an UPDATE, and two refresh   *)
(* calls that run at once interleave them.  The table is what SQLite holds:*)
(* a sequence of rows, with the primary key the ARN column is declared as. *)
(***************************************************************************)
WithArn(rows, arn) == {i \in 1..Len(rows) : rows[i].ARN = arn}

InsertUnconstrained(rows, row) == Append(rows, row)

\* INSERT: refused, the error dropped, when a row has the primary key
Insert(rows, row) == IF WithArn(rows, row.ARN) # {} THEN rows ELSE Append(rows, row)

\* UPDATE ... WHERE a_r_n = ?
Update(rows, row) == [i \in 1..Len(rows) |-> IF rows[i].ARN = row.ARN THEN row ELSE rows[i]]

\* DELETE ... WHERE a_r_n = ?
Delete(rows, arn) == SelectSeq(rows, LAMBDA r : r.ARN # arn)

OtherVarsUnchanged ==
  UNCHANGED <<now, ecsVars, clusters, containerInstances, tasks, tdVars, crashed, hist, last>>

\* First(&model): the caller learns whether a row with the ARN exists
UpsertSelects(c) ==
  /\ upserts.calls[c].pc = "idle"
  /\ \E arn \in NodeArns :
       upserts' = [upserts EXCEPT !.calls[c] =
                     [pc |-> IF WithArn(upserts.rows, arn) # {} THEN "found" ELSE "missing",
                      row |-> [ARN |-> arn, RefreshTime |-> now]]]
  /\ OtherVarsUnchanged

\* and then creates the row or updates it
UpsertWrites(c) ==
  /\ upserts.calls[c].pc # "idle"
  /\ upserts' = [rows |-> IF upserts.calls[c].pc = "missing"
                          THEN Insert(upserts.rows, upserts.calls[c].row)
                          ELSE Update(upserts.rows, upserts.calls[c].row),
                 calls |-> [upserts.calls EXCEPT ![c] = [pc |-> "idle"]]]
  /\ OtherVarsUnchanged

\* the stale-deletion step of a caller between two upserts deletes a row
\* that is older than its epoch
DeletesStale(c) ==
  /\ upserts.calls[c].pc = "idle"
  /\ \E i \in 1..Len(upserts.rows) :
       /\ upserts.rows[i].RefreshTime < now
       /\ upserts' = [upserts EXCEPT !.rows = Delete(@, upserts.rows[i].ARN)]
  /\ OtherVarsUnchanged

\* A whole RefreshContainerInstanceState of a caller, statement by statement,
\* ECS listing every container instance to it and no call failing: the epoch
\* is read, the records are upserted in the order listed, the stale rows are
\* looked up, and each is deleted by its primary key.
CycleStarts(c) ==
  /\ upserts.calls[c].pc = "idle"
  /\ upserts' = [upserts EXCEPT !.calls[c] =
                   [pc |-> "upserting", epoch |-> now,
                    todo |-> InOrder(NodeOrder, NodeArns), old |-> {}]]
  /\ OtherVarsUnchanged

CycleUpserts(c) ==
  LET call == upserts.calls[c]
      row == [ARN |-> Head(call.todo), RefreshTime |-> call.epoch]
  IN /\ call.pc = "upserting" /\ call.todo # <<>>
     /\ upserts' = [rows |-> IF WithArn(upserts.rows, row.ARN) # {}
                             THEN Update(upserts.rows, row)
                             ELSE Insert(upserts.rows, row),
                    calls |-> [upserts.calls EXCEPT ![c].todo = Tail(call.todo)]]
     /\ OtherVarsUnchanged

CycleFindsStale(c) ==
  LET call == upserts.calls[c]
  IN /\ call.pc = "upserting" /\ call.todo = <<>>
     /\ upserts' = [upserts EXCEPT
                      !.calls[c].pc = "deleting",
                      !.calls[c].old = {upserts.rows[i].ARN :
                                          i \in {j \in 1..Len(upserts.rows) :
                                                   upserts.rows[j].RefreshTime < call.epoch}}]
     /\ OtherVarsUnchanged

CycleDeletes(c) ==
  LET call == upserts.calls[c]
  IN /\ call.pc = "deleting"
     /\ \E arn \in call.old :
          upserts' = [rows |-> Delete(upserts.rows, arn),
                      calls |-> [upserts.calls EXCEPT ![c].old = call.old \ {arn}]]
     /\ OtherVarsUnchanged

CycleReturns(c) ==
  /\ upserts.calls[c].pc = "deleting" /\ upserts.calls[c].old = {}
  /\ upserts' = [upserts EXCEPT !.calls[c].pc = "done"]
  /\ OtherVarsUnchanged

(***************************************************************************)
(* History of the refresh cycles, kept beside the program: what the latest *)
(* cycle of a kind reported, and whether it ran cleanly and nothing it     *)
(* reads has changed since.                                                *)
(***************************************************************************)
IsNodeRefresh(l) == l.op = "RefreshContainerInstanceState"
IsTaskRefresh(l) == l.op = "RefreshTaskState"
IsRefresh(l) == IsNodeRefresh(l) \/ IsTaskRefresh(l)

\* the refresh ran to its end: no list error, no panic
Completed(l) == ~l.listErr /\ ~l.panicked
\* and no call failed and no identifier was reported as a failure
Clean(l) == Completed(l) /\ l.describeErr = {} /\ l.failures = {}

TrackRefresh ==
  hist' =
    [reported |->
       [ci |-> IF IsNodeRefresh(last') THEN last'.reported ELSE hist.reported.ci,
        task |-> IF IsTaskRefresh(last') THEN last'.reported ELSE hist.reported.task],
     fresh |->
       [cluster |-> IF last'.op = "RefreshClusterState" THEN ~last'.err
                    ELSE hist.fresh.cluster /\ ecsCluster' = ecsCluster,
        ci |-> IF IsNodeRefresh(last') THEN Clean(last')
               ELSE hist.fresh.ci /\ ecsCI' = ecsCI /\ clusters' = clusters,
        task |-> IF IsTaskRefresh(last') THEN Clean(last')
                 ELSE hist.fresh.task /\ ecsTasks' = ecsTasks]]

(***************************************************************************)
(* Specifications.  Spec is the whole program.  The tables are independent *)
(* of one another but for the placement query, which reads two of them,    *)
(* so the operations are explored in groups: the refresh operations with   *)
(* one of the container instance side and the task side populated at a     *)
(* time, the task definition cache alone, and the placement query over     *)
(* what a refresh stores.                                                  *)
(***************************************************************************)
Next ==
  \/ Tick /\ TrackRefresh
  \/ EcsClusterChanges /\ TrackRefresh
  \/ EcsContainerInstanceChanges /\ TrackRefresh
  \/ EcsTaskChanges /\ TrackRefresh
  \/ RefreshClusterState /\ TrackRefresh
  \/ RefreshContainerInstanceState /\ TrackRefresh
  \/ RefreshTaskState /\ TrackRefresh
  \/ FindTaskDefinition /\ TrackRefresh
  \/ FindLocationsForTaskDefinition /\ TrackRefresh
  \/ EcsScalesService /\ TrackRefresh
  \/ EcsRegistersThird /\ TrackRefresh

Spec == Init /\ [][Next]_vars

NoNodesYet ==
  /\ DOMAIN ecsCI = {} /\ DOMAIN containerInstances = {} /\ DOMAIN clusters = {}
  /\ hist.reported.ci = {} /\ ~hist.fresh.ci /\ ~hist.fresh.cluster

NoTasksYet ==
  /\ DOMAIN ecsTasks = {} /\ DOMAIN tasks = {}
  /\ hist.reported.task = {} /\ ~hist.fresh.task

NextRefresh ==
  \/ Tick /\ TrackRefresh
  \/ NoTasksYet /\ RefreshClusterState /\ TrackRefresh
  \/ NoTasksYet /\ EcsContainerInstanceChanges /\ TrackRefresh
  \/ NoTasksYet /\ RefreshContainerInstanceState /\ TrackRefresh
  \/ NoNodesYet /\ EcsTaskChanges /\ TrackRefresh
  \/ NoNodesYet /\ RefreshTaskState /\ TrackRefresh

SpecRefresh == Init /\ [][NextRefresh]_vars

NextTemplates == FindTaskDefinition /\ UNCHANGED hist

SpecTemplates == Init /\ [][NextTemplates]_vars

\* the placement query when no ECS call of the refreshes fails, the clock
\* standing still
NextQuery ==
  \/ EcsContainerInstanceChanges /\ UNCHANGED hist
  \/ RefreshClusterState /\ ~last'.err /\ UNCHANGED hist
  \/ RefreshContainerInstanceState /\ Clean(last') /\ UNCHANGED hist
  \/ FindLocationsForTaskDefinition /\ UNCHANGED hist

SpecQuery == Init /\ [][NextQuery]_vars

\* the five operations over one store, the clock standing still: ECS
\* registers container instances and tasks, no refresh meets a failing call
\* or a task it panics on, and the references asked for are the short forms
\* of the first revisions and the unknown one
StoreRefs ==
  {td \in Refs : td = UnknownRef \/ (td \in KnownRefs /\ ~HasPrefix(td, ArnPrefix)
                                       /\ TemplateOf(td).Revision = 1)}

Registers(ecs, ecsAfter) == \A a \in DOMAIN ecs : a \in DOMAIN ecsAfter /\ ecsAfter[a] = ecs[a]

NextStore ==
  \/ EcsContainerInstanceChanges /\ Registers(ecsCI, ecsCI') /\ UNCHANGED hist
  \/ EcsTaskChanges /\ Registers(ecsTasks, ecsTasks') /\ UNCHANGED hist
  \/ RefreshClusterState /\ ~last'.err /\ UNCHANGED hist
  \/ RefreshContainerInstanceState /\ Clean(last') /\ UNCHANGED hist
  \/ RefreshTaskState /\ Clean(last') /\ UNCHANGED hist
  \/ FindTaskDefinition /\ last'.td \in StoreRefs /\ UNCHANGED hist
  \/ FindLocationsForTaskDefinition /\ last'.td \in StoreRefs /\ UNCHANGED hist

SpecStore == Init /\ [][NextStore]_vars

\* the scaling of a service: one container instance, whose reported TCP ports
\* change once, the three refreshes and the placement of the service's template
ServiceRef == ShortFormOf(EcsTaskDefinition(Web, 3, <<>>))

NextService ==
  \/ Tick /\ TrackRefresh
  \/ EcsScalesService /\ TrackRefresh
  \/ RefreshClusterState /\ TrackRefresh
  \/ RefreshContainerInstanceState /\ TrackRefresh
  \/ RefreshTaskState /\ TrackRefresh
  \/ FindLocationsForTaskDefinition /\ last'.td = ServiceRef /\ TrackRefresh

SpecService == Init /\ [][NextService]_vars

\* the encoding of port sets, on its own
NextPorts == EncodesAndTests

SpecPorts == InitPorts /\ [][NextPorts]_vars

\* two refresh calls that overlap, statement by statement
NextUpserts ==
  \/ Tick /\ UNCHANGED hist
  \/ \E c \in Callers : UpsertSelects(c)
  \/ \E c \in Callers : UpsertWrites(c)
  \/ \E c \in Callers : DeletesStale(c)

SpecUpserts == Init /\ [][NextUpserts]_vars

\* two whole refresh calls that overlap, each called once
NextOverlap ==
  \/ Tick /\ UNCHANGED hist
  \/ \E c \in Callers : CycleStarts(c)
  \/ \E c \in Callers : CycleUpserts(c)
  \/ \E c \in Callers : CycleFindsStale(c)
  \/ \E c \in Callers : CycleDeletes(c)
  \/ \E c \in Callers : CycleReturns(c)

SpecOverlap == Init /\ [][NextOverlap]_vars

\* the refresh of three container instances, listed on two pages, that
\* register and do not change
NextPages ==
  \/ Tick /\ TrackRefresh
  \/ EcsContainerInstanceChanges /\ Registers(ecsCI, ecsCI') /\ TrackRefresh
  \/ EcsRegistersThird /\ TrackRefresh
  \/ RefreshContainerInstanceState /\ TrackRefresh

SpecPages == Init /\ [][NextPages]_vars

(***************************************************************************)
(* Properties of the refresh operations.                                   *)
(***************************************************************************)
AllRows == Rows(clusters, containerInstances, tasks, taskDefinitions)

\* C1: a record that the previous cycle of a kind reported and that ECS no
\* longer has when the next cycle runs is absent from the store once that
\* cycle has completed.
GarbageCollection ==
  [][ /\ (IsNodeRefresh(last') /\ Completed(last'))
           => \A a \in hist.reported.ci \ DOMAIN ecsCI :
                a \notin DOMAIN containerInstances'
      /\ (IsTaskRefresh(last') /\ Completed(last'))
           => \A a \in hist.reported.task \ DOMAIN ecsTasks :
                a \notin DOMAIN tasks' ]_vars

\* C2: a refresh whose paginated list call returned an error deletes no row
\* of any table.
NoGCOnListError ==
  [][ (IsRefresh(last') /\ last'.listErr) => AllRows \subseteq AllRows' ]_vars

\* a list call failed after a page was processed, and a stale row is left
NoGCOnListErrorWitness ==
  /\ IsNodeRefresh(last) /\ last.listErr /\ last.reported # {}
  /\ OlderThan(containerInstances, now) # {}

\* C3: a refresh in which a Describe call failed deletes no row of any table.
NoGCOnDescribeError ==
  [][ (IsRefresh(last') /\ last'.describeErr # {}) => AllRows \subseteq AllRows' ]_vars

\* C7: a clean refresh that follows a clean refresh of the same kind, nothing
\* it reads having changed in between, leaves the content of its table as it
\* was, refresh epochs aside.
IdempotentRefresh ==
  [][ /\ (last'.op = "RefreshClusterState" /\ ~last'.err /\ hist.fresh.cluster)
           => clusters' = clusters
      /\ (IsNodeRefresh(last') /\ Clean(last') /\ hist.fresh.ci)
           => Content(containerInstances') = Content(containerInstances)
      /\ (IsTaskRefresh(last') /\ Clean(last') /\ hist.fresh.task)
           => Content(tasks') = Content(tasks) ]_vars

\* the fields of a row that ECS reports
ReportedFields(row, reported) == [f \in DOMAIN reported |-> row[f]]

\* what ECS reports of a task, a nil StartedBy being the empty string
ReportedTask(task) ==
  [ClusterARN |-> task.ClusterArn,
   ContainerInstanceARN |-> task.ContainerInstanceArn,
   TaskDefinitionARN |-> task.TaskDefinitionArn,
   DesiredStatus |-> task.DesiredStatus,
   LastStatus |-> task.LastStatus,
   StartedBy |-> IF task.StartedBy = Nil THEN "" ELSE task.StartedBy]

\* C8: after a refresh, every field of an already stored row that the refresh
\* described again holds the value ECS reported.
UpsertOverwrites ==
  [][ /\ IsNodeRefresh(last')
           => \A a \in last'.reported \cap DOMAIN containerInstances :
                LET reported == [containerInstanceAssignment(ZeroCluster, ecsCI[a])
                                   EXCEPT !.ClusterARN = containerInstances'[a].ClusterARN]
                IN ReportedFields(containerInstances'[a], reported) = reported
      /\ IsTaskRefresh(last')
           => \A a \in last'.reported \cap DOMAIN tasks :
                ReportedFields(tasks'[a], ReportedTask(ecsTasks[a])) = ReportedTask(ecsTasks[a])
    ]_vars

(***************************************************************************)
(* Properties of the placement query.  The port sets are read as sets:     *)
(* the ports of a stored column are the pieces between its "=" signs, the  *)
(* ports a template requires are the host ports of its ECS definition.     *)
(***************************************************************************)
IsQuery(l) == l.op = "FindLocationsForTaskDefinition" /\ ~l.panicked

\* the set of ports, as decimal strings, a stored port column holds
StoredPortSet(column) == {piece \in Range(Split(column, "=")) : piece # <<>>}

\* the host ports a template requires, UDP or not
RequiredPorts(t, udp) ==
  {Itoa(pm.HostPort) : pm \in {m \in Range(AllPortMappings(t.ContainerDefinitions)) :
                                 m.HostPort > 0 /\ (m.Protocol = "udp") = udp}}

TotalCpu(t) == SumOf(t.ContainerDefinitions, "Cpu")
TotalMemory(t) == SumOf(t.ContainerDefinitions, "Memory")

\* a required port is in the remaining set of the row, TCP or UDP
PortConflict(row, t) ==
  \/ RequiredPorts(t, FALSE) \cap StoredPortSet(row.RemainingTCPPorts) # {}
  \/ RequiredPorts(t, TRUE) \cap StoredPortSet(row.RemainingUDPPorts) # {}

HasCapacity(row, t) ==
  /\ row.AgentConnected
  /\ row.RemainingCPU >= TotalCpu(t)
  /\ row.RemainingMemory >= TotalMemory(t)

\* C4: of the connected nodes with enough CPU and memory, the query leaves out
\* exactly those whose remaining TCP (UDP) set holds a TCP (UDP) port the
\* template requires.
PortDisjointness ==
  IsQuery(last) =>
    \A a \in DOMAIN containerInstances :
      HasCapacity(containerInstances[a], TemplateOf(last.td))
        => ((a \notin last.locations)
              <=> PortConflict(containerInstances[a], TemplateOf(last.td)))

Port(n) == Itoa(n)

\* the node with remaining TCP ports {80, 443} is left out for the template
\* that requires TCP 443
PortDisjointnessWitness ==
  /\ IsQuery(last)
  /\ RequiredPorts(TemplateOf(last.td), FALSE) = {Port(443)}
  /\ \E a \in DOMAIN containerInstances :
       /\ HasCapacity(containerInstances[a], TemplateOf(last.td))
       /\ StoredPortSet(containerInstances[a].RemainingTCPPorts) = {Port(80), Port(443)}
       /\ a \notin last.locations

\* the template of the capacity example: CPU 256, memory 512, TCP port 80
IsCapacityExample(t) ==
  /\ TotalCpu(t) = 256 /\ TotalMemory(t) = 512
  /\ RequiredPorts(t, FALSE) = {Port(80)} /\ RequiredPorts(t, TRUE) = {}

\* the nodes of the capacity example: connected, CPU 1024, memory 2048
CapacityExampleNodes ==
  {a \in DOMAIN containerInstances :
     /\ containerInstances[a].AgentConnected
     /\ containerInstances[a].RemainingCPU = 1024
     /\ containerInstances[a].RemainingMemory = 2048}

\* C5 as stated: such a node is left out when its remaining TCP set does not
\* hold 80 and returned when it does.
CapacityFilterAsStated ==
  (IsQuery(last) /\ IsCapacityExample(TemplateOf(last.td))) =>
    \A a \in CapacityExampleNodes :
      (a \in last.locations)
        <=> (Port(80) \in StoredPortSet(containerInstances[a].RemainingTCPPorts))

\* C5: such a node is left out when its remaining TCP set holds 80 and returned
\* when it does not.
CapacityFilter ==
  (IsQuery(last) /\ IsCapacityExample(TemplateOf(last.td))) =>
    \A a \in CapacityExampleNodes :
      (a \in last.locations)
        <=> (Port(80) \notin StoredPortSet(containerInstances[a].RemainingTCPPorts))

\* the query of the example met a node with 80 in its set and one without
CapacityFilterWitness ==
  /\ IsQuery(last) /\ IsCapacityExample(TemplateOf(last.td))
  /\ \E a \in CapacityExampleNodes :
       /\ Port(80) \in StoredPortSet(containerInstances[a].RemainingTCPPorts)
       /\ a \notin last.locations
  /\ \E a \in CapacityExampleNodes :
       /\ Port(80) \notin StoredPortSet(containerInstances[a].RemainingTCPPorts)
       /\ a \in last.locations

\* the stored owning cluster of the row is the tracked cluster
InTrackedCluster(row) == row.ClusterARN = TrackedClusterArn

\* C6 as stated: the query returns exactly the stored nodes of the tracked
\* cluster that are connected, have the CPU and the memory and no port
\* conflict.
PlacementAsStated ==
  IsQuery(last) =>
    last.locations =
      {a \in DOMAIN containerInstances :
         /\ InTrackedCluster(containerInstances[a])
         /\ HasCapacity(containerInstances[a], TemplateOf(last.td))
         /\ ~PortConflict(containerInstances[a], TemplateOf(last.td))}

\* C6: the query returns exactly the stored nodes that are connected, have the
\* CPU and the memory and no port conflict, whatever their stored owning
\* cluster; the empty set when there is none.
Placement ==
  IsQuery(last) =>
    last.locations =
      {a \in DOMAIN containerInstances :
         /\ HasCapacity(containerInstances[a], TemplateOf(last.td))
         /\ ~PortConflict(containerInstances[a], TemplateOf(last.td))}

\* a node stored with no owning cluster is returned, another node is not
PlacementWitness ==
  /\ IsQuery(last)
  /\ \E a \in last.locations : ~InTrackedCluster(containerInstances[a])
  /\ DOMAIN containerInstances \ last.locations # {}

(***************************************************************************)
(* Properties of the task definition cache                                 *)
(***************************************************************************)
IsShortForm(td) == ~HasPrefix(td, ArnPrefix)

\* the other reference form of the same template
OtherForm(td) ==
  IF IsShortForm(td) THEN TemplateOf(td).TaskDefinitionArn ELSE ShortFormOf(TemplateOf(td))

\* C9: a second FindTaskDefinition with the same short form makes no describe
\* call, so that one call was made for the template in all (by the first call,
\* unless the other form had resolved it before), and returns the record of
\* the first.
ResolvedOnce ==
  (last.op = "FindTaskDefinition" /\ IsShortForm(last.td) /\ last.again) =>
    /\ ~last.described /\ ~last.panicked
    /\ describeCalls[last.td] + describeCalls[OtherForm(last.td)] = 1
    /\ last.result = firstResult[last.td]
    /\ last.result = taskDefinitions[TemplateOf(last.td).TaskDefinitionArn]

\* a short form was resolved a second time, after a first call that asked ECS
ResolvedOnceWitness ==
  /\ last.op = "FindTaskDefinition" /\ IsShortForm(last.td) /\ last.again
  /\ describeCalls[last.td] = 1
  /\ describeCalls[OtherForm(last.td)] = 0

\* C10: once a template is resolved through one reference form, a call with
\* the other form makes no describe call and returns the same stored record.
KeyedByBothForms ==
  [][\A td \in KnownRefs :
       (/\ last'.op = "FindTaskDefinition" /\ last'.td = td
        /\ ~crashed
        /\ OtherForm(td) \in DOMAIN firstResult)
         => /\ ~last'.described /\ ~last'.panicked
            /\ describeCalls' = describeCalls
            /\ taskDefinitions' = taskDefinitions
            /\ last'.result = firstResult[OtherForm(td)]]_vars

\* a reference never resolved itself was answered from the row its other
\* form had stored
KeyedByBothFormsWitness ==
  /\ last.op = "FindTaskDefinition" /\ ~last.again /\ ~last.described
  /\ describeCalls[last.td] = 0
  /\ describeCalls[OtherForm(last.td)] = 1
  /\ last.result = firstResult[OtherForm(last.td)]

(***************************************************************************)
(* Properties of what FindTaskDefinition builds                            *)
(***************************************************************************)
\* the set of ports, as decimal strings, a stored port list holds
ListedPortSet(ports) == {piece \in Range(Split(ports, ",")) : piece # <<>>}

IsMiss(l) == l.op = "FindTaskDefinition" /\ l.described /\ ~l.panicked

\* C13: on a cache miss the record returned, and stored, has the CPU and the
\* memory of all container definitions summed, as UDP ports the non-zero host
\* ports declared udp and as TCP ports the other non-zero host ports.
TemplateFootprint ==
  IsMiss(last) =>
    LET t == TemplateOf(last.td)
    IN /\ last.result.Cpu = TotalCpu(t)
       /\ last.result.Memory = TotalMemory(t)
       /\ ListedPortSet(last.result.TCPPorts) = RequiredPorts(t, FALSE)
       /\ ListedPortSet(last.result.UDPPorts) = RequiredPorts(t, TRUE)
       /\ t.TaskDefinitionArn \in DOMAIN taskDefinitions
       /\ taskDefinitions[t.TaskDefinitionArn] = last.result

\* a miss on the template of two containers, with a mapping without protocol,
\* one of udp, one of host port 0 and one without host port
TemplateFootprintWitness ==
  /\ IsMiss(last)
  /\ Len(TemplateOf(last.td).ContainerDefinitions) = 2
  /\ last.result.Cpu = 256 /\ last.result.Memory = 512
  /\ ListedPortSet(last.result.TCPPorts) = {Port(443)}
  /\ ListedPortSet(last.result.UDPPorts) = {Port(53)}

\* C14: a call of FindTaskDefinition or FindLocationsForTaskDefinition whose
\* DescribeTaskDefinition fails returns normally, with an empty result, and
\* creates no record.
DescribeFailureSurvived ==
  [][(/\ last'.op \in {"FindTaskDefinition", "FindLocationsForTaskDefinition"}
      /\ last'.described
      /\ EcsDescribeTaskDefinition(last'.td) = {})
       => /\ ~last'.panicked /\ ~crashed'
          /\ taskDefinitions' = taskDefinitions]_vars

(***************************************************************************)
(* Further properties of the refresh operations                            *)
(***************************************************************************)
\* C17: the epoch of a refresh call is greater than the epoch of every earlier
\* call of its kind, that is, than the epoch any stored row of the kind bears.
EpochsIncrease ==
  [][/\ IsNodeRefresh(last')
        => \A a \in DOMAIN containerInstances : containerInstances[a].RefreshTime < now
     /\ IsTaskRefresh(last')
        => \A a \in DOMAIN tasks : tasks[a].RefreshTime < now]_vars

\* C19: a task RefreshTaskState upserted is stored with the last status and
\* the desired status ECS reports for it.
TaskStatusStored ==
  IsTaskRefresh(last) =>
    \A a \in last.reported :
      /\ tasks[a].LastStatus = ecsTasks[a].LastStatus
      /\ tasks[a].DesiredStatus = ecsTasks[a].DesiredStatus

\* the tasks ECS lists without a container instance
Unplaced == {a \in DOMAIN ecsTasks : ecsTasks[a].ContainerInstanceArn = Nil}

\* C20: a RefreshTaskState none of whose calls fails ends normally when a
\* task is unplaced, stores it with an empty node identifier and stores the
\* other tasks.
UnplacedTaskStored ==
  (IsTaskRefresh(last) /\ ~last.listErr /\ last.describeErr = {} /\ last.failures = {}
     /\ Unplaced # {})
    => /\ ~last.panicked /\ ~crashed
       /\ DOMAIN ecsTasks \subseteq DOMAIN tasks
       /\ \A a \in Unplaced : tasks[a].ContainerInstanceARN = ""

(***************************************************************************)
(* Properties of the five operations over one store                        *)
(***************************************************************************)
\* C11: no operation removes a TaskDefinition record or changes a field of it.
WriteOnce ==
  [][\A a \in DOMAIN taskDefinitions :
       a \in DOMAIN taskDefinitions' /\ taskDefinitions'[a] = taskDefinitions[a]]_vars

\* a record was created beside an earlier one, and a refresh of the tasks ran
\* over a store holding both
WriteOnceWitness ==
  /\ Cardinality(DOMAIN taskDefinitions) = 2
  /\ IsTaskRefresh(last) /\ last.reported # {}
  /\ DOMAIN containerInstances # {} /\ DOMAIN clusters # {}

\* C18: FindLocationsForTaskDefinition changes no Cluster, ContainerInstance
\* or Task record, and changes the TaskDefinition table by at most the record
\* created on a miss.
QueryReadOnly ==
  [][last'.op = "FindLocationsForTaskDefinition" =>
       /\ clusters' = clusters
       /\ containerInstances' = containerInstances
       /\ tasks' = tasks
       /\ \/ taskDefinitions' = taskDefinitions
          \/ /\ last'.described /\ ~last'.panicked
             /\ last'.taskDefinition.ARN \notin DOMAIN taskDefinitions
             /\ taskDefinitions' = Put(taskDefinitions, last'.taskDefinition.ARN,
                                       last'.taskDefinition)]_vars

\* a query on a miss returned a node, over a store holding a cluster and a task
QueryReadOnlyWitness ==
  /\ last.op = "FindLocationsForTaskDefinition" /\ last.described /\ ~last.panicked
  /\ last.locations # {}
  /\ DOMAIN clusters # {} /\ DOMAIN tasks # {}
  /\ \A a \in last.locations :
       containerInstances[a].RemainingCPU >= last.taskDefinition.Cpu

(***************************************************************************)
(* The scaling of a service, end to end                                    *)
(***************************************************************************)
\* the query of the service's template found the store as the three refreshes
\* leave it, each having run without a failure since ECS last changed
AfterRefreshes ==
  /\ IsQuery(last) /\ last.td = ServiceRef
  /\ hist.fresh.cluster /\ hist.fresh.ci /\ hist.fresh.task
  /\ DOMAIN ecsCI = {"ci1"}

\* C12 as stated: the query returns no node while ECS reports no TCP port for
\* the node, and the node once ECS reports port 80.
ServiceScalingAsStated ==
  AfterRefreshes =>
    /\ ecsCI["ci1"] = ServiceNode(<<>>) => last.locations = {}
    /\ ecsCI["ci1"] = ServiceNode(<<80>>) => last.locations = {"ci1"}

\* C12: the query returns the node while ECS reports no TCP port for it, and
\* no node once ECS reports port 80.
ServiceScaling ==
  AfterRefreshes =>
    /\ ecsCI["ci1"] = ServiceNode(<<>>) => last.locations = {"ci1"}
    /\ ecsCI["ci1"] = ServiceNode(<<80>>) => last.locations = {}

\* the sequence was repeated after the change: the template was resolved by
\* an earlier query, the node is stored with port 80 and is not returned
ServiceScalingWitness ==
  /\ AfterRefreshes /\ ~last.described
  /\ ecsCI["ci1"] = ServiceNode(<<80>>)
  /\ StoredPortSet(containerInstances["ci1"].RemainingTCPPorts) = {Port(80)}
  /\ containerInstances["ci1"].RemainingCPU = 900
  /\ containerInstances["ci1"].RemainingMemory = 3000
  /\ last.taskDefinition.Cpu = 100 /\ last.taskDefinition.Memory = 100
  /\ last.locations = {}

(***************************************************************************)
(* Failures reported for single identifiers                                *)
(***************************************************************************)
\* the container instances ECS answered a Describe call for with a record
Answered(l) == (DOMAIN ecsCI \ l.describeErr) \ l.failures

\* C15: a RefreshContainerInstanceState whose Describe calls report failures
\* for some identifiers upserts every record ECS answered with, on the page of
\* a failure and on the pages after it, and deletes the stale rows; a stored
\* row whose identifier was reported as a failure is not stamped.
PartialFailures ==
  [][(IsNodeRefresh(last') /\ last'.failures # {} /\ ~last'.listErr) =>
       /\ \A a \in Answered(last') :
            /\ a \in DOMAIN containerInstances'
            /\ containerInstances'[a].RefreshTime = now
       /\ OlderThan(containerInstances', now) = {}
       /\ \A a \in last'.failures \cap DOMAIN containerInstances :
            IF containerInstances[a].RefreshTime < now
            THEN a \notin DOMAIN containerInstances'
            ELSE containerInstances'[a] = containerInstances[a]]_vars

\* ci1 was reported as a failure on the page that answered ci2, ci3 came on
\* the next page; ci2 and ci3 bear the epoch of the call, ci1 is not stored
PartialFailuresWitness ==
  /\ IsNodeRefresh(last) /\ ~last.listErr /\ last.describeErr = {}
  /\ last.failures = {"ci1"} /\ last.reported = {"ci2", "ci3"}
  /\ Len(Pages(InOrder(NodeOrder, DOMAIN ecsCI))) = 2
  /\ now = MaxTime
  /\ DOMAIN containerInstances = {"ci2", "ci3"}
  /\ \A a \in DOMAIN containerInstances : containerInstances[a].RefreshTime = now

(***************************************************************************)
(* Overlapping refreshes                                                   *)
(***************************************************************************)
\* C16: the table never holds two rows with one identifier, whatever the
\* order the statements of overlapping upserts run in.
UniqueIdentifiers ==
  \A i, j \in 1..Len(upserts.rows) :
    upserts.rows[i].ARN = upserts.rows[j].ARN => i = j

\* a caller found no row for an identifier another caller has inserted since
UniqueIdentifiersWitness ==
  \E c \in Callers :
    /\ upserts.calls[c].pc = "missing"
    /\ WithArn(upserts.rows, upserts.calls[c].row.ARN) # {}

(***************************************************************************)
(* The encoding of port sets                                               *)
(***************************************************************************)
\* C23: the condition built for a port finds its needle in the encoding of a
\* set of ports exactly when the port is in the set.
EncodingIsMembership ==
  last.op = "instr" => (last.excluded <=> last.port \in Range(last.ports))

\* port 80 is not found in the encoding of {180, 8080}
EncodingIsMembershipWitness ==
  /\ last.op = "instr" /\ last.port = 80
  /\ Range(last.ports) = {180, 8080}
  /\ last.column = <<"=", "1", "8", "0", "=", "=", "8", "0", "8", "0", "=">>
  /\ ~last.excluded

(***************************************************************************)
(* The order of the cluster and the container instance refreshes           *)
(***************************************************************************)
ClusterStored == TrackedClusterArn \in DOMAIN clusters

\* C22: a RefreshContainerInstanceState that succeeds after a RefreshClusterState
\* that succeeded leaves every stored node with the ARN of the stored cluster;
\* one that runs with no cluster stored stores the nodes with an empty cluster
\* ARN, and one that runs with the cluster stored sets the ARN on the nodes
\* it upserts.
ClusterBeforeNodes ==
  [][IsNodeRefresh(last') =>
       /\ (Clean(last') /\ hist.fresh.cluster /\ ClusterStored) =>
            \A a \in DOMAIN containerInstances' :
              containerInstances'[a].ClusterARN = FindClusterByName(clusterName).ARN
       /\ ~ClusterStored =>
            \A a \in last'.reported : containerInstances'[a].ClusterARN = ""
       /\ ClusterStored =>
            \A a \in last'.reported :
              containerInstances'[a].ClusterARN = FindClusterByName(clusterName).ARN]_vars

(***************************************************************************)
(* Overlapping refresh calls                                               *)
(***************************************************************************)
\* C21: when two refresh calls with different epochs have both returned, every
\* container instance ECS listed to both is stored.
OverlapKeepsReported ==
  (/\ \A c \in Callers : upserts.calls[c].pc = "done"
   /\ \A c, d \in Callers : c # d => upserts.calls[c].epoch # upserts.calls[d].epoch)
    => \A arn \in NodeArns : WithArn(upserts.rows, arn) # {}

====
